---- MODULE Spec2Model ----
(***************************************************************************)
(* vitals-glimpse v0.4: the request admission pipeline (IP allowlist,      *)
(* fixed-window rate limiter, API key) in front of the vitals responder,   *)
(* and the memory / disk / CPU samplers behind it.                         *)
(*                                                                         *)
(* Strings are sequences of one-character strings, so that the limiter's   *)
(* composite key ip + "|" + minute and its HasSuffix purge are computed,   *)
(* not assumed.  Addresses are AddrBits wide instead of 32.                *)
(***************************************************************************)
EXTENDS Integers, Sequences, FiniteSets, TLC

VARIABLES
    apiKey,          \* -key: the configured key, <<>> when disabled
    allowedNets,     \* -allow: sequence of parsed networks
    rateLimit,       \* -ratelimit
    clock,           \* time.Now().Unix(), seconds
    counts,          \* limiter.counts: key -> count
    lastClean,       \* limiter.lastClean
    req,             \* the request handled last
    resp,            \* what the handler chain did for it
    calls,           \* history: <<host, minute>> -> number of allow() calls made
    admitted,        \* history: <<caller, minute>> -> number of its requests allow() let pass
    callPaths,       \* history kept under SpecPaths: <<host, minute>> -> the paths of those calls
    keyFailures,     \* history kept under SpecPaths: <<host, minute>> -> the 401s written
                     \* to requests the limiter was asked about
    thresholds,      \* memThresholdPercent, diskThresholdPercent, cpuThresholdPercent
    goarch,          \* the build's target architecture
    runningInContainer,
    memSrc,          \* /proc/meminfo as the sampler finds it
    diskSrc,         \* statfs("/") as the sampler finds it
    cpuSrc,          \* the CPU sources at t0 and t1
    snapshot,        \* what statusAsJson returned last
    samplerCalls,    \* history: the samplers statusAsJson invoked for it, in order
    mu,              \* limiter.mu: 0 when unlocked, else the goroutine holding it
    pc,              \* where each request's goroutine stands
    frame,           \* each goroutine's request, locals of allow() and status written
    markerFiles,     \* the files isInContainer looks at, as main finds them
    markerReads      \* history: the files isInContainer consulted, in order

gateVars ==
    <<apiKey, allowedNets, rateLimit, clock, counts, lastClean, req, resp, calls, admitted>>
vitalVars ==
    <<thresholds, goarch, runningInContainer, memSrc, diskSrc, cpuSrc, snapshot, samplerCalls>>
pathVars == <<callPaths, keyFailures>>
concVars == <<mu, pc, frame>>
detectVars == <<markerFiles, markerReads>>
vars == <<gateVars, vitalVars, pathVars, concVars, detectVars>>

-----------------------------------------------------------------------------
(* Bounds of the model *)

\* addresses are AddrBits wide
AddrBits == 2
\* the largest -ratelimit tried
MaxLimit == 2
\* each (host, minute) is asked at most rateLimit + ExtraCalls times
ExtraCalls == 1
\* the clock starts at StartClock seconds, just before a minute boundary
StartClock == 118
\* the clock stops at MaxClock seconds
MaxClock == 121

\* the number of requests in flight at once
NumRequests == 3

\* memory and disk sources report every 0 <= available <= total <= MaxTotal
MaxTotal == 6
\* Go's int is 64 bits wide on the builds modelled; here it is IntBits wide
IntBits == 24

\* time.Now().Unix() / 60
SecondsPerWindow == 60

-----------------------------------------------------------------------------
(* Strings *)

DigitChars == <<"0", "1", "2", "3", "4", "5", "6", "7", "8", "9">>

RECURSIVE FormatInt(_)
\* strconv.FormatInt(n, 10)
FormatInt(n) ==
    IF n < 0 THEN <<"-">> \o FormatInt(-n)
    ELSE IF n < 10 THEN <<DigitChars[n + 1]>>
    ELSE FormatInt(n \div 10) \o <<DigitChars[(n % 10) + 1]>>

\* strings.HasSuffix
HasSuffix(s, suffix) ==
    /\ Len(s) >= Len(suffix)
    /\ SubSeq(s, Len(s) - Len(suffix) + 1, Len(s)) = suffix

\* the index of the last c in s, 0 when there is none
LastIndex(s, c) ==
    LET at == {i \in 1..Len(s) : s[i] = c}
    IN  IF at = {} THEN 0 ELSE CHOOSE i \in at : \A j \in at : j <= i

\* the host of net.SplitHostPort(addr); "" when addr has no port
SplitHostPort(addr) ==
    LET i == LastIndex(addr, ":")
    IN  IF i = 0 THEN <<>> ELSE SubSeq(addr, 1, i - 1)

DigitValue(c) == CHOOSE d \in 0..9 : DigitChars[d + 1] = c

IsDigit(c) == \E d \in 0..9 : DigitChars[d + 1] = c

RECURSIVE ParseDigits(_, _)
ParseDigits(s, acc) ==
    IF s = <<>> THEN acc ELSE ParseDigits(Tail(s), acc * 10 + DigitValue(Head(s)))

\* net.ParseIP yields nil for text that is no address
NilIP == -1

\* net.ParseIP(host) over host strings that are decimal renderings of an address
ParseIP(host) ==
    IF host # <<>> /\ (\A i \in 1..Len(host) : IsDigit(host[i]))
       /\ ParseDigits(host, 0) < 2 ^ AddrBits
    THEN ParseDigits(host, 0)
    ELSE NilIP

-----------------------------------------------------------------------------
(* Networks *)

\* ip with all but its first prefix bits cleared
MaskIP(ip, prefix) ==
    (ip \div (2 ^ (AddrBits - prefix))) * (2 ^ (AddrBits - prefix))

\* net.ParseCIDR: the network of base/prefix, its address masked
ParseCIDR(base, prefix) == [ip |-> MaskIP(base, prefix), prefix |-> prefix]

\* Contains as it would be without the mask: a faulty variant
ContainsExact(n, ip) ==
    ip # NilIP /\ n.ip = ip

\* (*net.IPNet).Contains
Contains(n, ip) ==
    ip # NilIP /\ n.ip = MaskIP(ip, n.prefix)

-----------------------------------------------------------------------------
(* The rate limiter *)

EmptyMap == [k \in {} |-> 0]

\* a Go map read: the zero value for a missing key
MapGet(m, k) == IF k \in DOMAIN m THEN m[k] ELSE 0

\* allow as it would be with < in place of <=: a faulty variant
allowStrict(rl, ip) ==
    LET now == clock \div SecondsPerWindow
        key == ip \o <<"|">> \o FormatInt(now)
        suffix == <<"|">> \o FormatInt(now)
        kept == IF now # rl.lastClean
                THEN [k \in {k \in DOMAIN rl.counts : HasSuffix(k, suffix)} |-> rl.counts[k]]
                ELSE rl.counts
        bumped == [k \in DOMAIN kept \cup {key} |-> IF k = key THEN MapGet(kept, key) + 1 ELSE kept[k]]
    IN  [counts |-> bumped, lastClean |-> now, ok |-> bumped[key] < rateLimit]

\* allow as it would be without the purge: a faulty variant
allowNoPurge(rl, ip) ==
    LET now == clock \div SecondsPerWindow
        key == ip \o <<"|">> \o FormatInt(now)
        kept == rl.counts
        bumped == [k \in DOMAIN kept \cup {key} |-> IF k = key THEN MapGet(kept, key) + 1 ELSE kept[k]]
    IN  [counts |-> bumped,
         lastClean |-> IF now # rl.lastClean THEN now ELSE rl.lastClean,
         ok |-> bumped[key] <= rateLimit]

\* allow as it would be if it admitted one call more: a faulty variant
allowOneMore(rl, ip) ==
    LET now == clock \div SecondsPerWindow
        key == ip \o <<"|">> \o FormatInt(now)
        suffix == <<"|">> \o FormatInt(now)
        kept == IF now # rl.lastClean
                THEN [k \in {k \in DOMAIN rl.counts : HasSuffix(k, suffix)} |-> rl.counts[k]]
                ELSE rl.counts
        bumped == [k \in DOMAIN kept \cup {key} |-> IF k = key THEN MapGet(kept, key) + 1 ELSE kept[k]]
    IN  [counts |-> bumped,
         lastClean |-> IF now # rl.lastClean THEN now ELSE rl.lastClean,
         ok |-> bumped[key] <= rateLimit + 1]

\* allow as it would be if a rejected call were not counted: a faulty variant
allowCountsAdmitted(rl, ip) ==
    LET now == clock \div SecondsPerWindow
        key == ip \o <<"|">> \o FormatInt(now)
        suffix == <<"|">> \o FormatInt(now)
        kept == IF now # rl.lastClean
                THEN [k \in {k \in DOMAIN rl.counts : HasSuffix(k, suffix)} |-> rl.counts[k]]
                ELSE rl.counts
        ok == MapGet(kept, key) + 1 <= rateLimit
        bumped == [k \in DOMAIN kept \cup {key} |->
                      IF k = key THEN MapGet(kept, key) + (IF ok THEN 1 ELSE 0) ELSE kept[k]]
    IN  [counts |-> bumped,
         lastClean |-> IF now # rl.lastClean THEN now ELSE rl.lastClean,
         ok |-> ok]

\* allow as it would be with one counter per minute for all callers: a faulty variant
allowSharedCounter(rl, ip) ==
    LET now == clock \div SecondsPerWindow
        key == <<"|">> \o FormatInt(now)
        suffix == <<"|">> \o FormatInt(now)
        kept == IF now # rl.lastClean
                THEN [k \in {k \in DOMAIN rl.counts : HasSuffix(k, suffix)} |-> rl.counts[k]]
                ELSE rl.counts
        bumped == [k \in DOMAIN kept \cup {key} |-> IF k = key THEN MapGet(kept, key) + 1 ELSE kept[k]]
    IN  [counts |-> bumped,
         lastClean |-> IF now # rl.lastClean THEN now ELSE rl.lastClean,
         ok |-> bumped[key] <= rateLimit]

\* rateLimiter.allow, the whole call under rl.mu
allow(rl, ip) ==
    LET now == clock \div SecondsPerWindow
        key == ip \o <<"|">> \o FormatInt(now)
        suffix == <<"|">> \o FormatInt(now)
        kept == IF now # rl.lastClean
                THEN [k \in {k \in DOMAIN rl.counts : HasSuffix(k, suffix)} |-> rl.counts[k]]
                ELSE rl.counts
        bumped == [k \in DOMAIN kept \cup {key} |-> IF k = key THEN MapGet(kept, key) + 1 ELSE kept[k]]
    IN  [counts |-> bumped,
         lastClean |-> IF now # rl.lastClean THEN now ELSE rl.lastClean,
         ok |-> bumped[key] <= rateLimit]

-----------------------------------------------------------------------------
(* The middleware.  A stage takes the request and the handler state s =     *)
(* [counts, lastClean, written, sampled, allowLog] and yields the state it  *)
(* leaves and whether it called next(w, r).                                 *)

StatusOK == 200
StatusUnauthorized == 401
StatusForbidden == 403
StatusTooManyRequests == 429

\* http.Error(w, ..., code): one more status written to w
HttpError(s, code) == [s EXCEPT !.written = Append(@, code)]

RECURSIVE Differences(_, _)
\* the v |= x[i] ^ y[i] loop of ConstantTimeCompare: whether any position differs
Differences(x, y) ==
    IF x = <<>> THEN FALSE
    ELSE (Head(x) # Head(y)) \/ Differences(Tail(x), Tail(y))

\* a comparison of only the bytes both have: a faulty variant of ConstantTimeCompare
ConstantTimeComparePrefix(x, y) ==
    LET n == IF Len(x) < Len(y) THEN Len(x) ELSE Len(y)
    IN  IF Differences(SubSeq(x, 1, n), SubSeq(y, 1, n)) THEN 0 ELSE 1

\* subtle.ConstantTimeCompare
ConstantTimeCompare(x, y) ==
    IF Len(x) # Len(y) THEN 0
    ELSE IF Differences(x, y) THEN 0 ELSE 1

\* requireKey as it would be without the return after http.Error: a faulty variant
requireKeyFallsThrough(r, s) ==
    IF apiKey # <<>>
    THEN LET provided == r.header
         IN  IF ConstantTimeCompare(provided, apiKey) # 1
             THEN [st |-> HttpError(s, StatusUnauthorized), callNext |-> TRUE]
             ELSE [st |-> s, callNext |-> TRUE]
    ELSE [st |-> s, callNext |-> TRUE]

requireKey(r, s) ==
    IF apiKey # <<>>
    THEN LET provided == r.header
         IN  IF ConstantTimeCompare(provided, apiKey) # 1
             THEN [st |-> HttpError(s, StatusUnauthorized), callNext |-> FALSE]
             ELSE [st |-> s, callNext |-> TRUE]
    ELSE [st |-> s, callNext |-> TRUE]

RECURSIVE AnyContains(_, _)
\* the loop over allowedNets, leaving at the first network that contains ip
AnyContains(nets, ip) ==
    IF nets = <<>> THEN FALSE
    ELSE IF Contains(Head(nets), ip) THEN TRUE
    ELSE AnyContains(Tail(nets), ip)

\* requireAllowedIP as it would be without the return after the 403: a faulty variant
requireAllowedIPFallsThrough(r, s) ==
    IF Len(allowedNets) > 0
    THEN LET host == SplitHostPort(r.remoteAddr)
             ip == ParseIP(host)
             allowed == AnyContains(allowedNets, ip)
         IN  IF ~allowed
             THEN [st |-> HttpError(s, StatusForbidden), callNext |-> TRUE]
             ELSE [st |-> s, callNext |-> TRUE]
    ELSE [st |-> s, callNext |-> TRUE]

requireAllowedIP(r, s) ==
    IF Len(allowedNets) > 0
    THEN LET host == SplitHostPort(r.remoteAddr)
             ip == ParseIP(host)
             allowed == AnyContains(allowedNets, ip)
         IN  IF ~allowed
             THEN [st |-> HttpError(s, StatusForbidden), callNext |-> FALSE]
             ELSE [st |-> s, callNext |-> TRUE]
    ELSE [st |-> s, callNext |-> TRUE]

\* isAllowedIP as it would be if nobody were exempt: a faulty variant
isAllowedIPNever(r) == FALSE

isAllowedIP(r) ==
    IF Len(allowedNets) = 0 THEN FALSE
    ELSE LET host == SplitHostPort(r.remoteAddr)
             ip == ParseIP(host)
         IN  AnyContains(allowedNets, ip)

\* rateCheck as it would be if a limit of 0 were enforced: a faulty variant
rateCheckZeroEnforced(r, s) ==
    IF rateLimit >= 0 /\ ~isAllowedIP(r)
    THEN LET host == SplitHostPort(r.remoteAddr)
             a == allow([counts |-> s.counts, lastClean |-> s.lastClean], host)
             s1 == [s EXCEPT !.counts = a.counts, !.lastClean = a.lastClean,
                             !.allowLog = Append(@, [host |-> host,
                                                     now |-> clock \div SecondsPerWindow,
                                                     ok |-> a.ok])]
         IN  IF ~a.ok
             THEN [st |-> HttpError(s1, StatusTooManyRequests), callNext |-> FALSE]
             ELSE [st |-> s1, callNext |-> TRUE]
    ELSE [st |-> s, callNext |-> TRUE]

rateCheck(r, s) ==
    IF rateLimit > 0 /\ ~isAllowedIP(r)
    THEN LET host == SplitHostPort(r.remoteAddr)
             a == allow([counts |-> s.counts, lastClean |-> s.lastClean], host)
             s1 == [s EXCEPT !.counts = a.counts, !.lastClean = a.lastClean,
                             !.allowLog = Append(@, [host |-> host,
                                                     now |-> clock \div SecondsPerWindow,
                                                     ok |-> a.ok])]
         IN  IF ~a.ok
             THEN [st |-> HttpError(s1, StatusTooManyRequests), callNext |-> FALSE]
             ELSE [st |-> s1, callNext |-> TRUE]
    ELSE [st |-> s, callNext |-> TRUE]

\* io.WriteString(resp, statusAsJson()): the samplers run, the body goes out with 200
serveStats(r, s) ==
    [st |-> [s EXCEPT !.sampled = TRUE, !.written = Append(@, StatusOK)],
     callNext |-> FALSE]

Stage(name, r, s) ==
    CASE name = "requireAllowedIP" -> requireAllowedIP(r, s)
      [] name = "rateCheck" -> rateCheck(r, s)
      [] name = "requireKey" -> requireKey(r, s)
      [] name = "serveStats" -> serveStats(r, s)

\* the chain with the key checked before the rate: a faulty variant
handlerChainKeyFirst == <<"requireAllowedIP", "requireKey", "rateCheck", "serveStats">>

\* requireAllowedIP(rateCheck(requireKey(serveStats))), outermost first
handlerChain == <<"requireAllowedIP", "rateCheck", "requireKey", "serveStats">>

RECURSIVE RunChain(_, _, _)
RunChain(chain, r, s) ==
    IF chain = <<>> THEN s
    ELSE LET out == Stage(Head(chain), r, s)
         IN  IF out.callNext THEN RunChain(Tail(chain), r, out.st) ELSE out.st

\* the handler registered for both patterns
handler(r, s) == RunChain(handlerChain, r, s)

\* the -endpoint default
endPoint == "/vitals"

\* the mux as it would be with the bare responder on "/": a faulty variant
DefaultServeMuxRootOpen(r, s) ==
    IF r.path = endPoint THEN handler(r, s) ELSE RunChain(<<"serveStats">>, r, s)

\* http.DefaultServeMux after the two HandleFunc calls: the exact pattern
\* endPoint, and "/" for every other path
DefaultServeMux(r, s) ==
    IF r.path = endPoint THEN handler(r, s) ELSE handler(r, s)

-----------------------------------------------------------------------------
(* Requests *)

ClientIPs == {1, 3}
\* X-API-Key values; <<>> is an absent header
Headers == {<<>>, <<"k">>, <<"k", "e">>, <<"k", "e", "y">>, <<"k", "y">>}

\* r.RemoteAddr as net/http sets it: "IP:port"
RemoteAddrOf(ip, port) == FormatInt(ip) \o <<":">> \o FormatInt(port)

\* a request as the handler sees it (remoteAddr, header, path), with the peer it came from
Request(ip, port, h, u) ==
    [ip |-> ip, port |-> port, remoteAddr |-> RemoteAddrOf(ip, port), header |-> h, path |-> u]

\* the requests tried: every header on /vitals from one port of each caller,
\* and no key or the two-letter key on / from another port
Requests ==
    {Request(ip, 7, h, "/vitals") : ip \in ClientIPs, h \in Headers}
        \cup {Request(ip, 8, h, "/") : ip \in ClientIPs, h \in {<<>>, <<"k", "e">>}}

NoRequest == [ip |-> NilIP, port |-> 0, remoteAddr |-> <<>>, header |-> <<>>, path |-> ""]
NoResponse == [written |-> <<>>, sampled |-> FALSE, allowLog |-> <<>>, at |-> 0]

\* the -allow values tried, each already through ParseCIDR
NetConfigs ==
    { <<>>,
      <<ParseCIDR(3, 1)>>,
      <<ParseCIDR(0, 2), ParseCIDR(1, 2)>> }

ApiKeys == {<<>>, <<"k", "e">>}

\* the steps the clock is seen to take between two requests
TickSteps == {1, 2}

-----------------------------------------------------------------------------
(* The server *)

\* the state main() leaves before ListenAndServe: flags parsed, limiter empty
GateInit ==
    /\ apiKey \in ApiKeys
    /\ allowedNets \in NetConfigs
    /\ rateLimit \in 0..MaxLimit
    /\ clock = StartClock
    /\ counts = EmptyMap
    /\ lastClean = 0
    /\ req = NoRequest
    /\ resp = NoResponse
    /\ calls = EmptyMap
    /\ admitted = EmptyMap

RECURSIVE Logged(_, _)
\* the history of allow() calls with those of log added
Logged(log, h) ==
    IF log = <<>> THEN h
    ELSE LET k == <<Head(log).host, Head(log).now>>
             h1 == [x \in DOMAIN h \cup {k} |-> IF x = k THEN MapGet(h, k) + 1 ELSE h[x]]
         IN  Logged(Tail(log), h1)

RECURSIVE LoggedPaths(_, _, _)
\* the paths history with path u added for every allow() call of log
LoggedPaths(log, u, h) ==
    IF log = <<>> THEN h
    ELSE LET k == <<Head(log).host, Head(log).now>>
             h1 == [x \in DOMAIN h \cup {k} |->
                       IF x = k THEN (IF k \in DOMAIN h THEN h[k] ELSE {}) \cup {u} ELSE h[x]]
         IN  LoggedPaths(Tail(log), u, h1)

\* one request served from accept to response by the handler the mux finds for it
HandleRequest(r) ==
    /\ MapGet(calls, <<SplitHostPort(r.remoteAddr), clock \div SecondsPerWindow>>)
           < rateLimit + ExtraCalls
    /\ \E s1 \in {DefaultServeMux(r, [counts |-> counts, lastClean |-> lastClean,
                              written |-> <<>>, sampled |-> FALSE, allowLog |-> <<>>])} :
          /\ counts' = s1.counts
          /\ lastClean' = s1.lastClean
          /\ req' = r
          /\ resp' = [written |-> s1.written, sampled |-> s1.sampled,
                      allowLog |-> s1.allowLog, at |-> clock]
          /\ calls' = Logged(s1.allowLog, calls)
          /\ admitted' = Logged(SelectSeq(s1.allowLog, LAMBDA e : e.ok) , admitted)
    /\ UNCHANGED <<apiKey, allowedNets, rateLimit, clock>>

\* wall-clock time passes
Tick(d) ==
    /\ clock + d <= MaxClock
    /\ clock' = clock + d
    /\ UNCHANGED <<apiKey, allowedNets, rateLimit, counts, lastClean, req, resp, calls,
                   admitted>>

-----------------------------------------------------------------------------
(* The samplers *)

MinInt == -(2 ^ (IntBits - 1))
MaxInt == 2 ^ (IntBits - 1) - 1

\* two's-complement wrap-around of int arithmetic
WrapInt(x) == ((x - MinInt) % (2 ^ IntBits)) + MinInt

\* Go's integer division and float-to-int conversion truncate toward zero
TruncDiv(a, b) ==
    IF b = 0 THEN 0
    ELSE LET q == (IF a < 0 THEN -a ELSE a) \div (IF b < 0 THEN -b ELSE b)
         IN  IF (a < 0) = (b < 0) THEN q ELSE -q

RECURSIVE DigitPrefix(_, _, _)
\* the value of the leading digits of s, and whether there was one
DigitPrefix(s, acc, any) ==
    IF s = <<>> \/ ~IsDigit(Head(s)) THEN [value |-> acc, any |-> any]
    ELSE DigitPrefix(Tail(s), acc * 10 + DigitValue(Head(s)), TRUE)

\* parseInt: fmt.Sscanf(s, "%d", &value), value left 0 when the scan fails
parseInt(s) ==
    LET neg == s # <<>> /\ Head(s) = "-"
        body == IF s # <<>> /\ Head(s) \in {"-", "+"} THEN Tail(s) ELSE s
        p == DigitPrefix(body, 0, FALSE)
    IN  IF ~p.any THEN 0 ELSE IF neg THEN -p.value ELSE p.value

RECURSIVE ParseMemInfo(_, _)
\* the loop filling memStats: every line of two fields or more sets its key
ParseMemInfo(lines, memStats) ==
    IF lines = <<>> THEN memStats
    ELSE LET parts == Head(lines)
         IN  IF Len(parts) >= 2
             THEN ParseMemInfo(Tail(lines),
                      [k \in DOMAIN memStats \cup {parts[1]} |->
                          IF k = parts[1] THEN parseInt(parts[2]) ELSE memStats[k]])
             ELSE ParseMemInfo(Tail(lines), memStats)

\* float32(a)*100/float32(b): a finite quotient, or +Inf, -Inf or NaN when b is 0
Float32Quotient(a, b) ==
    IF b # 0 THEN [kind |-> "finite", num |-> a * 100, den |-> b]
    ELSE IF a > 0 THEN [kind |-> "+Inf"]
    ELSE IF a < 0 THEN [kind |-> "-Inf"]
    ELSE [kind |-> "NaN"]

\* int(f): truncation for a value that fits; for NaN and the infinities what the
\* build's conversion instruction yields (amd64: the indefinite integer;
\* arm64: saturation, NaN to 0)
FloatToInt(f, arch) ==
    IF f.kind = "finite" THEN TruncDiv(f.num, f.den)
    ELSE IF arch = "amd64" THEN MinInt
    ELSE IF f.kind = "NaN" THEN 0
    ELSE IF f.kind = "+Inf" THEN MaxInt
    ELSE MinInt

\* the failure value of the samplers
SampleFailed == -1

\* the constant the samplers subtract the percent available from
PercentBase == 99

percentMemUsed(src, arch) ==
    IF ~src.readable THEN SampleFailed
    ELSE LET memStats == ParseMemInfo(src.lines, EmptyMap)
             percentAvail == Float32Quotient(MapGet(memStats, "MemAvailable:"),
                                             MapGet(memStats, "MemTotal:"))
         IN  WrapInt(PercentBase - FloatToInt(percentAvail, arch))

percentDiskUsed(stat) ==
    IF ~stat.ok THEN SampleFailed
    ELSE LET totalSpace == IF stat.Blocks = 0 THEN -1 ELSE stat.Blocks
             availableSpace == stat.Bavail
         IN  PercentBase - TruncDiv(availableSpace * 100, totalSpace)

\* getCPUTimes as it would be with idle alone as the idle time: a faulty variant
getCPUTimesIdleOnly(stat) ==
    IF ~stat.readable \/ ~stat.hasCpuLine THEN [idleTime |-> 0, totalTime |-> 0]
    ELSE LET f == stat.fields
         IN  [idleTime |-> f.idle,
              totalTime |-> f.user + f.nice + f.system + f.idle + f.iowait
                               + f.irq + f.softirq + f.steal]

\* getCPUTimes on one reading of /proc/stat: zeros when it cannot be read or
\* has no "cpu" line
getCPUTimes(stat) ==
    IF ~stat.readable \/ ~stat.hasCpuLine THEN [idleTime |-> 0, totalTime |-> 0]
    ELSE LET f == stat.fields
         IN  [idleTime |-> f.idle + f.iowait,
              totalTime |-> f.user + f.nice + f.system + f.idle + f.iowait
                               + f.irq + f.softirq + f.steal]

\* getCGroupCPUUsage on one reading of cpu.stat, the error dropped by the caller
getCGroupCPUUsage(cg) ==
    IF ~cg.readable \/ ~cg.hasUsageLine THEN 0 ELSE cg.usage_usec

MicrosPerSecond == 1000000

percentCpuUsedCgroup(src) ==
    LET usageStart == getCGroupCPUUsage(src.cg0)
        usageEnd == getCGroupCPUUsage(src.cg1)
        usageDelta == usageEnd - usageStart
        usage == TruncDiv(100 * usageDelta, MicrosPerSecond * src.numCPU)
    IN  IF usage > 100 THEN 100 ELSE usage

percentCpuUsedProcStat(src) ==
    LET t0 == getCPUTimes(src.stat0)
        t1 == getCPUTimes(src.stat1)
        idleDelta == t1.idleTime - t0.idleTime
        totalDelta == t1.totalTime - t0.totalTime
    IN  IF totalDelta = 0 THEN 0
        ELSE TruncDiv(100 * (totalDelta - idleDelta), totalDelta)

\* whether cpu.stat can be read when percentCpuUsed asks
hasCgroupCPUStats(src) == src.cgProbe

\* percentCpuUsed as it would be without the probe of cpu.stat: a faulty variant
percentCpuUsedNoProbe(src) ==
    IF runningInContainer
    THEN percentCpuUsedCgroup(src)
    ELSE percentCpuUsedProcStat(src)

percentCpuUsed(src) ==
    IF runningInContainer /\ hasCgroupCPUStats(src)
    THEN percentCpuUsedCgroup(src)
    ELSE percentCpuUsedProcStat(src)

\* the status keyword of one metric
Keyword(name, okay) == IF okay THEN <<name, "okay">> ELSE <<name, "fail">>

\* statusAsJson as it would be with <= in place of <: a faulty variant
statusAsJsonAtMost ==
    LET m == percentMemUsed(memSrc, goarch)
        d == percentDiskUsed(diskSrc)
        c == percentCpuUsed(cpuSrc)
    IN  [mem_status |-> Keyword("mem", m <= thresholds[1]), mem_percent |-> m,
         disk_status |-> Keyword("disk", d <= thresholds[2]), disk_percent |-> d,
         cpu_status |-> Keyword("cpu", c <= thresholds[3]), cpu_percent |-> c]

\* the status keyword as it would be if a failed sample counted as a fail
KeywordOrFail(name, v, th) == Keyword(name, v # SampleFailed /\ v < th)

\* statusAsJson as it would be if it reported a failed sample as fail: a faulty variant
statusAsJsonFailOnError ==
    LET m == percentMemUsed(memSrc, goarch)
        d == percentDiskUsed(diskSrc)
        c == percentCpuUsed(cpuSrc)
    IN  [mem_status |-> KeywordOrFail("mem", m, thresholds[1]), mem_percent |-> m,
         disk_status |-> KeywordOrFail("disk", d, thresholds[2]), disk_percent |-> d,
         cpu_status |-> Keyword("cpu", c < thresholds[3]), cpu_percent |-> c]

\* statusAsJson as it would be if a failed sample were replaced by 0: a faulty variant
statusAsJsonSubstitute ==
    LET m == percentMemUsed(memSrc, goarch)
        d == percentDiskUsed(diskSrc)
        c == percentCpuUsed(cpuSrc)
        m1 == IF m = SampleFailed THEN 0 ELSE m
        d1 == IF d = SampleFailed THEN 0 ELSE d
    IN  [mem_status |-> Keyword("mem", m1 < thresholds[1]), mem_percent |-> m1,
         disk_status |-> Keyword("disk", d1 < thresholds[2]), disk_percent |-> d1,
         cpu_status |-> Keyword("cpu", c < thresholds[3]), cpu_percent |-> c]

\* the sampler calls statusAsJson makes: one each, in this order, whatever they return
statusAsJsonCalls == <<"percentMemUsed", "percentDiskUsed", "percentCpuUsed">>

\* statusAsJson: the fields of the JSON object it renders
statusAsJson ==
    LET m == percentMemUsed(memSrc, goarch)
        d == percentDiskUsed(diskSrc)
        c == percentCpuUsed(cpuSrc)
    IN  [mem_status |-> Keyword("mem", m < thresholds[1]), mem_percent |-> m,
         disk_status |-> Keyword("disk", d < thresholds[2]), disk_percent |-> d,
         cpu_status |-> Keyword("cpu", c < thresholds[3]), cpu_percent |-> c]

-----------------------------------------------------------------------------
(* The container detector *)

WhiteSpace == {" ", "\n", "\t"}

RECURSIVE TrimLeft(_)
TrimLeft(s) == IF s # <<>> /\ Head(s) \in WhiteSpace THEN TrimLeft(Tail(s)) ELSE s

RECURSIVE TrimRight(_)
TrimRight(s) ==
    IF s # <<>> /\ s[Len(s)] \in WhiteSpace THEN TrimRight(SubSeq(s, 1, Len(s) - 1)) ELSE s

\* strings.TrimSpace
TrimSpace(s) == TrimRight(TrimLeft(s))

\* strings.HasPrefix
HasPrefix(s, prefix) == Len(s) >= Len(prefix) /\ SubSeq(s, 1, Len(prefix)) = prefix

RECURSIVE StringsContains(_, _)
\* strings.Contains
StringsContains(s, substr) ==
    IF Len(s) < Len(substr) THEN FALSE
    ELSE IF HasPrefix(s, substr) THEN TRUE
    ELSE StringsContains(Tail(s), substr)

SystemdMarkers == {<<"l", "x", "c">>, <<"d", "o", "c", "k", "e", "r">>, <<"o", "c", "i">>}

\* isInContainer as it would be if it gave up at the first file it cannot
\* read: a faulty variant
isInContainerGivesUp(fs) ==
    IF ~fs.systemd.readable
    THEN [result |-> FALSE, read |-> <<"/run/systemd/container">>]
    ELSE IF TrimSpace(fs.systemd.content) \in SystemdMarkers
    THEN [result |-> TRUE, read |-> <<"/run/systemd/container">>]
    ELSE IF fs.dockerenv.exists
    THEN [result |-> TRUE, read |-> <<"/run/systemd/container", "/.dockerenv">>]
    ELSE [result |-> FALSE, read |-> <<"/run/systemd/container", "/.dockerenv">>]

\* isInContainer: the verdict and the files consulted on the way to it
isInContainer(fs) ==
    IF fs.systemd.readable /\ TrimSpace(fs.systemd.content) \in SystemdMarkers
    THEN [result |-> TRUE, read |-> <<"/run/systemd/container">>]
    ELSE IF fs.dockerenv.exists
    THEN [result |-> TRUE, read |-> <<"/run/systemd/container", "/.dockerenv">>]
    ELSE IF /\ fs.cpumax.readable
            /\ LET line == TrimSpace(fs.cpumax.content)
               IN  line # <<"m", "a", "x", " ", "1", "0", "0", "0", "0", "0">> /\ ~HasPrefix(line, <<"m", "a", "x", " ">>)
    THEN [result |-> TRUE,
          read |-> <<"/run/systemd/container", "/.dockerenv", "/sys/fs/cgroup/cpu.max">>]
    ELSE IF /\ fs.cgroup1.readable
            /\ \/ StringsContains(fs.cgroup1.content, <<"/", "l", "x", "c", "/">>)
               \/ StringsContains(fs.cgroup1.content, <<"/", "d", "o", "c", "k", "e", "r", "/">>)
    THEN [result |-> TRUE,
          read |-> <<"/run/systemd/container", "/.dockerenv", "/sys/fs/cgroup/cpu.max",
                     "/proc/1/cgroup">>]
    ELSE [result |-> FALSE,
          read |-> <<"/run/systemd/container", "/.dockerenv", "/sys/fs/cgroup/cpu.max",
                     "/proc/1/cgroup">>]

\* a readable file: its content, and the text it carries between the
\* white space put around it
TextFile(lead, body, trail) ==
    [readable |-> TRUE, content |-> lead \o body \o trail, body |-> body]

NoFile == [readable |-> FALSE]

SystemdFiles ==
    {NoFile,
     TextFile(<<>>, <<"d", "o", "c", "k", "e", "r">>, <<"\n">>),
     TextFile(<<>>, <<"l", "x", "c">>, <<>>),
     TextFile(<<" ">>, <<"o", "c", "i">>, <<"\n">>),
     TextFile(<<>>, <<"d", "o", "c", "k", "e", "r", "x">>, <<"\n">>),
     TextFile(<<>>, <<>>, <<"\n">>)}

CpuMaxFiles ==
    {NoFile,
     TextFile(<<>>, <<"m", "a", "x", " ", "1", "0", "0", "0", "0", "0">>, <<"\n">>),
     TextFile(<<>>, <<"m", "a", "x", " ", "5">>, <<"\n">>),
     TextFile(<<>>, <<"5", " ", "1", "0", "0", "0", "0", "0">>, <<"\n">>),
     TextFile(<<>>, <<"m", "a", "x">>, <<"\n">>),
     TextFile(<<>>, <<>>, <<>>)}

Cgroup1Files ==
    {NoFile,
     TextFile(<<>>, <<"0", ":", ":", "/">>, <<"\n">>),
     TextFile(<<>>, <<"1", ":", "c", "p", "u", ":", "/", "d", "o", "c", "k", "e", "r", "/", "a", "b">>, <<"\n">>),
     TextFile(<<>>, <<"1", ":", "c", "p", "u", ":", "/", "l", "x", "c", "/", "a", "b">>, <<>>),
     TextFile(<<>>, <<"1", ":", "c", "p", "u", ":", "/", "d", "o", "c", "k", "e", "r", "d">>, <<"\n">>)}

\* the file systems main can start on
MarkerFileSets ==
    {[systemd |-> a, dockerenv |-> [exists |-> b], cpumax |-> c, cgroup1 |-> d] :
        a \in SystemdFiles, b \in BOOLEAN, c \in CpuMaxFiles, d \in Cgroup1Files}

NoMarkerFiles == <<>>

-----------------------------------------------------------------------------
(* The sources the samplers read *)

\* a line of /proc/meminfo as strings.Fields splits it
MemLine(key, n) == <<key, FormatInt(n), <<"k", "B">>>>

\* <<available, total>>: every pair up to MaxTotal, and some on a scale of 100
\* (with a total of 0 every available count is tried)
SourcePairs ==
    {p \in (0..MaxTotal) \X (0..MaxTotal) : p[2] = 0 \/ p[1] <= p[2]}
        \cup {<<a, 100>> : a \in {8, 9, 18, 19, 62, 84, 100}}

\* a readable /proc/meminfo, with what it states as numbers (0 where it states none)
MemFile(lines, hasTotal, total, hasAvailable, available) ==
    [readable |-> TRUE, lines |-> lines,
     hasTotal |-> hasTotal, total |-> total,
     hasAvailable |-> hasAvailable, available |-> available]

MemUnreadable == [readable |-> FALSE]

MemSources ==
    {MemUnreadable}
        \cup {MemFile(<<MemLine("MemTotal:", p[2]), MemLine("MemFree:", 0),
                        MemLine("MemAvailable:", p[1])>>, TRUE, p[2], TRUE, p[1]) :
                 p \in SourcePairs}
        \cup {MemFile(<<>>, FALSE, 0, FALSE, 0),
              MemFile(<<MemLine("MemTotal:", 4), <<"MemFree:">>>>, TRUE, 4, FALSE, 0),
              MemFile(<<MemLine("MemAvailable:", 3)>>, FALSE, 0, TRUE, 3),
              MemFile(<<<<"MemTotal:", <<"k", "B">>>>, MemLine("MemAvailable:", 0)>>,
                      FALSE, 0, TRUE, 0)}

DiskUnreadable == [ok |-> FALSE]

DiskSources ==
    {DiskUnreadable}
        \cup {[ok |-> TRUE, Blocks |-> p[2], Bavail |-> p[1]] : p \in SourcePairs}

CpuFields(user, system, idle, iowait) ==
    [user |-> user, nice |-> 0, system |-> system, idle |-> idle, iowait |-> iowait,
     irq |-> 0, softirq |-> 0, steal |-> 0]

StatReading(f) == [readable |-> TRUE, hasCpuLine |-> TRUE, fields |-> f]
StatUnreadable == [readable |-> FALSE]
CgReading(usec) == [readable |-> TRUE, hasUsageLine |-> TRUE, usage_usec |-> usec]
CgUnreadable == [readable |-> FALSE]

\* the busy jiffies, out of 100, between the two readings of /proc/stat
BusyDeltas == {0, 2, 90, 92, 100}
\* the microseconds of CPU time between the two readings of cpu.stat
UsageDeltas == {0, 20000, 900000, 2500000}

\* a cgroup whose second reading fails or has no usage_usec line after two
\* seconds of accumulated CPU time, and /proc/stat readings whose deltas do not
\* divide evenly, whose iowait moves, or one of which is missing
CpuOddSources ==
    {[stat0 |-> StatReading(CpuFields(10, 5, 80, 5)),
      stat1 |-> StatReading(CpuFields(10, 5, 180, 5)),
      cg0 |-> CgReading(2000000), cg1 |-> c1, cgProbe |-> TRUE, numCPU |-> 1] :
         c1 \in {CgUnreadable, [readable |-> TRUE, hasUsageLine |-> FALSE]}}
        \cup {[stat0 |-> s[1], stat1 |-> s[2],
               cg0 |-> CgUnreadable, cg1 |-> CgUnreadable, cgProbe |-> FALSE, numCPU |-> 1] :
                  s \in {<<StatUnreadable, StatReading(CpuFields(10, 5, 80, 5))>>,
                         <<StatReading(CpuFields(10, 5, 80, 5)),
                           StatReading(CpuFields(11, 5, 80, 7))>>,
                         <<StatReading(CpuFields(10, 5, 80, 5)),
                           StatReading(CpuFields(12, 6, 81, 8))>>,
                         <<StatReading(CpuFields(10, 5, 80, 5)),
                           [readable |-> TRUE, hasCpuLine |-> FALSE]>>}}

CpuSources ==
    {[stat0 |-> StatReading(CpuFields(10, 5, 80, 5)),
      stat1 |-> StatReading(CpuFields(10 + b, 5, 80 + (100 - b), 5)),
      cg0 |-> CgReading(1000), cg1 |-> CgReading(1000 + u),
      cgProbe |-> probe, numCPU |-> n] :
         b \in BusyDeltas, u \in UsageDeltas, probe \in BOOLEAN, n \in {1, 2}}
        \cup {[stat0 |-> StatReading(CpuFields(10, 5, 80, 5)),
               stat1 |-> StatReading(CpuFields(10, 5, 80, 5)),
               cg0 |-> CgUnreadable, cg1 |-> CgUnreadable, cgProbe |-> FALSE, numCPU |-> 1],
              [stat0 |-> StatReading(CpuFields(10, 5, 80, 5)),
               stat1 |-> StatUnreadable,
               cg0 |-> CgReading(1000), cg1 |-> CgUnreadable, cgProbe |-> TRUE, numCPU |-> 1]}
        \cup CpuOddSources

\* -mem, -disk, -cpu: the defaults and the ends of the range main accepts
ThresholdConfigs == {<<90, 80, 90>>, <<1, 1, 1>>, <<100, 100, 100>>}

\* the builds: GOARCH
Builds == {"amd64", "arm64"}

NoSnapshot == <<>>

\* <<memSrc, diskSrc>> as one request finds them: every memory source beside
\* one disk, every disk beside unreadable memory, and the percent-scale pairs
SourceCombos ==
    {<<m, [ok |-> TRUE, Blocks |-> 100, Bavail |-> 84]>> : m \in MemSources}
        \cup {<<MemUnreadable, d>> : d \in DiskSources}
        \cup {<<MemFile(<<MemLine("MemTotal:", 100), MemLine("MemAvailable:", p[1])>>,
                        TRUE, 100, TRUE, p[1]),
                [ok |-> TRUE, Blocks |-> 100, Bavail |-> p[2]]>> :
                  p \in {<<9, 19>>, <<8, 18>>, <<62, 84>>}}

VitalsIdle ==
    /\ thresholds = <<90, 80, 90>>
    /\ goarch = "amd64"
    /\ runningInContainer = FALSE
    /\ memSrc = MemUnreadable
    /\ diskSrc = DiskUnreadable
    /\ cpuSrc = <<>>
    /\ snapshot = NoSnapshot
    /\ samplerCalls = <<>>

PathsIdle == callPaths = EmptyMap /\ keyFailures = EmptyMap

\* no goroutine is followed step by step
ConcIdle == mu = 0 /\ pc = <<>> /\ frame = <<>>

\* isInContainer is not looked into
DetectIdle == markerFiles = NoMarkerFiles /\ markerReads = <<>>

Init == GateInit /\ VitalsIdle /\ PathsIdle /\ ConcIdle /\ DetectIdle

Serve == \E r \in Requests : HandleRequest(r)

Advance == \E d \in TickSteps : Tick(d)

Next ==
    \/ Serve /\ UNCHANGED <<vitalVars, pathVars, detectVars, concVars>>
    \/ Advance /\ UNCHANGED <<vitalVars, pathVars, detectVars, concVars>>

Spec == Init /\ [][Next]_vars

-----------------------------------------------------------------------------
(* The responder on its own: one admitted request over every source *)

\* a server with no gate configured and nothing served yet
GateIdle ==
    /\ apiKey = <<>>
    /\ allowedNets = <<>>
    /\ rateLimit = 0
    /\ clock = StartClock
    /\ counts = EmptyMap
    /\ lastClean = 0
    /\ req = NoRequest
    /\ resp = NoResponse
    /\ calls = EmptyMap
    /\ admitted = EmptyMap

\* thresholds as validated by main, the build, the classification taken at
\* startup, and the sources as the next request will find them
VitalsInit ==
    /\ thresholds \in ThresholdConfigs
    /\ goarch \in Builds
    /\ runningInContainer \in BOOLEAN
    /\ \E sc \in SourceCombos : memSrc = sc[1] /\ diskSrc = sc[2]
    /\ cpuSrc \in CpuSources
    /\ snapshot = NoSnapshot
    /\ samplerCalls = <<>>

\* the request the responder is watched on
ProbeRequest == Request(1, 7, <<>>, "/vitals")

\* one request through the handler; where the chain reaches serveStats
\* the samplers run and the snapshot is rendered
Respond ==
    /\ snapshot = NoSnapshot
    /\ HandleRequest(ProbeRequest)
    /\ snapshot' = IF resp'.sampled THEN statusAsJson ELSE snapshot
    /\ samplerCalls' = IF resp'.sampled THEN statusAsJsonCalls ELSE samplerCalls
    /\ UNCHANGED <<thresholds, goarch, runningInContainer, memSrc, diskSrc, cpuSrc>>
    /\ UNCHANGED <<pathVars, detectVars, concVars>>

InitVitals == GateIdle /\ VitalsInit /\ PathsIdle /\ ConcIdle /\ DetectIdle

NextVitals == Respond

SpecVitals == InitVitals /\ [][NextVitals]_vars

-----------------------------------------------------------------------------
(* Startup: main classifies the machine before it serves *)

\* main before runningInContainer is assigned, on any of the file systems
DetectStart ==
    /\ markerFiles \in MarkerFileSets
    /\ markerReads = <<>>

\* runningInContainer = isInContainer()
Classify ==
    /\ markerReads = <<>>
    /\ \E d \in {isInContainer(markerFiles)} :
          /\ runningInContainer' = d.result
          /\ markerReads' = d.read
    /\ UNCHANGED <<thresholds, goarch, memSrc, diskSrc, cpuSrc, snapshot, samplerCalls>>
    /\ UNCHANGED <<gateVars, pathVars, concVars, markerFiles>>

InitDetect == GateIdle /\ VitalsIdle /\ PathsIdle /\ ConcIdle /\ DetectStart

NextDetect == Classify

SpecDetect == InitDetect /\ [][NextDetect]_vars

-----------------------------------------------------------------------------
(* The two patterns: one caller on both paths, with the paths remembered *)

\* the requests of caller 1, without a key or with the two-letter key, on either path
PathRequests ==
    {r \in Requests : r.ip = 1 /\ r.header \in {<<>>, <<"k", "e">>}}

ServeOnPath ==
    \E r \in PathRequests :
        /\ HandleRequest(r)
        /\ callPaths' = LoggedPaths(resp'.allowLog, r.path, callPaths)
        /\ keyFailures' =
              IF /\ resp'.allowLog # <<>>
                 /\ StatusUnauthorized \in {resp'.written[i] : i \in 1..Len(resp'.written)}
              THEN Logged(<<[host |-> SplitHostPort(r.remoteAddr),
                            now |-> clock \div SecondsPerWindow]>>, keyFailures)
              ELSE keyFailures

NextPaths ==
    \/ ServeOnPath /\ UNCHANGED <<vitalVars, concVars, detectVars>>
    \/ Advance /\ UNCHANGED <<vitalVars, pathVars, detectVars, concVars>>

SpecPaths == Init /\ [][NextPaths]_vars

-----------------------------------------------------------------------------
(* Requests in flight together: net/http runs the handler of each request   *)
(* in a goroutine of its own, and the goroutines meet at limiter.mu.        *)

Goroutines == 1..NumRequests

\* the request of goroutine g: the first without a key, the others with the
\* two-letter key
ConcRequest(g, ip) == Request(ip, 7, IF g = 1 THEN <<>> ELSE <<"k", "e">>, endPoint)

\* the handler state a stage is run on when only its verdict is wanted
BlankState ==
    [counts |-> counts, lastClean |-> lastClean, written |-> <<>>, sampled |-> FALSE,
     allowLog |-> <<>>]

\* every goroutine at the accept, all but the last from caller 1
ConcStart ==
    /\ mu = 0
    /\ pc = [g \in Goroutines |-> "accept"]
    /\ \E ip \in ClientIPs :
          frame = [g \in Goroutines |->
                      [r |-> ConcRequest(g, IF g = NumRequests THEN ip ELSE 1),
                       now |-> 0, loaded |-> 0, ok |-> FALSE, status |-> 0]]

\* the goroutine moves to location l
Goto(g, l) == pc' = [pc EXCEPT ![g] = l]

\* the goroutine answers with status code and ends
Answer(g, code) ==
    /\ pc' = [pc EXCEPT ![g] = "done"]
    /\ frame' = [frame EXCEPT ![g].status = code]

\* the key allow() forms for goroutine g
KeyIn(g) == SplitHostPort(frame[g].r.remoteAddr) \o <<"|">> \o FormatInt(frame[g].now)

\* requireAllowedIP, then rateCheck up to its call of limiter.allow
Enter(g) ==
    /\ pc[g] = "accept"
    /\ IF ~requireAllowedIP(frame[g].r, BlankState).callNext
       THEN Answer(g, StatusForbidden)
       ELSE /\ Goto(g, IF rateLimit > 0 /\ ~isAllowedIP(frame[g].r) THEN "lock" ELSE "key")
            /\ UNCHANGED frame
    /\ UNCHANGED <<gateVars, vitalVars, pathVars, detectVars, mu>>

\* rl.mu.Lock() as it would be if it did not wait: a faulty variant
LockNoWait(g) ==
    /\ pc[g] = "lock"
    /\ mu' = g
    /\ Goto(g, "clean")
    /\ UNCHANGED <<gateVars, vitalVars, pathVars, detectVars, frame>>

\* rl.mu.Lock(): waits until the mutex is free
Lock(g) ==
    /\ pc[g] = "lock"
    /\ mu = 0
    /\ mu' = g
    /\ Goto(g, "clean")
    /\ UNCHANGED <<gateVars, vitalVars, pathVars, detectVars, frame>>

\* now, key and the purge of the entries of other minutes
Clean(g) ==
    /\ pc[g] = "clean"
    /\ LET now == clock \div SecondsPerWindow
           suffix == <<"|">> \o FormatInt(now)
       IN  /\ frame' = [frame EXCEPT ![g].now = now]
           /\ IF now # lastClean
              THEN /\ counts' = [k \in {k \in DOMAIN counts : HasSuffix(k, suffix)} |->
                                    counts[k]]
                   /\ lastClean' = now
              ELSE UNCHANGED <<counts, lastClean>>
    /\ Goto(g, "load")
    /\ UNCHANGED <<apiKey, allowedNets, rateLimit, clock, req, resp, calls, admitted>>
    /\ UNCHANGED <<vitalVars, pathVars, detectVars, mu>>

\* rl.counts[key]++, the read
Load(g) ==
    /\ pc[g] = "load"
    /\ frame' = [frame EXCEPT ![g].loaded = MapGet(counts, KeyIn(g))]
    /\ Goto(g, "store")
    /\ UNCHANGED <<gateVars, vitalVars, pathVars, detectVars, mu>>

\* rl.counts[key]++, the write
Store(g) ==
    /\ pc[g] = "store"
    /\ counts' = [k \in DOMAIN counts \cup {KeyIn(g)} |->
                     IF k = KeyIn(g) THEN frame[g].loaded + 1 ELSE counts[k]]
    /\ Goto(g, "return")
    /\ UNCHANGED <<apiKey, allowedNets, rateLimit, clock, lastClean, req, resp, calls,
                   admitted>>
    /\ UNCHANGED <<vitalVars, pathVars, detectVars, mu, frame>>

\* the return of allow() as it would be without the deferred Unlock: a faulty variant
ReturnKeepLocked(g) ==
    /\ pc[g] = "return"
    /\ LET ok == MapGet(counts, KeyIn(g)) <= rateLimit
       IN  /\ frame' = [frame EXCEPT ![g].ok = ok,
                                      ![g].status = IF ok THEN @ ELSE StatusTooManyRequests]
           /\ Goto(g, IF ok THEN "key" ELSE "done")
    /\ UNCHANGED <<gateVars, vitalVars, pathVars, detectVars, mu>>

\* return rl.counts[key] <= rateLimit, the deferred rl.mu.Unlock(), and
\* rateCheck's 429 when the answer is false
Return(g) ==
    /\ pc[g] = "return"
    /\ LET ok == MapGet(counts, KeyIn(g)) <= rateLimit
       IN  /\ frame' = [frame EXCEPT ![g].ok = ok,
                                      ![g].status = IF ok THEN @ ELSE StatusTooManyRequests]
           /\ Goto(g, IF ok THEN "key" ELSE "done")
    /\ mu' = 0
    /\ UNCHANGED <<gateVars, vitalVars, pathVars, detectVars>>

\* requireKey, then serveStats up to the time.Sleep of the CPU sampler
CheckKey(g) ==
    /\ pc[g] = "key"
    /\ IF ~requireKey(frame[g].r, BlankState).callNext
       THEN Answer(g, StatusUnauthorized)
       ELSE Goto(g, "sleep") /\ UNCHANGED frame
    /\ UNCHANGED <<gateVars, vitalVars, pathVars, detectVars, mu>>

\* the second reading after the sleep, and the 200 with the rendered snapshot
Wake(g) ==
    /\ pc[g] = "sleep"
    /\ Answer(g, StatusOK)
    /\ UNCHANGED <<gateVars, vitalVars, pathVars, detectVars, mu>>

InitConc == GateInit /\ VitalsIdle /\ PathsIdle /\ ConcStart /\ DetectIdle

NextConc ==
    \/ \E g \in Goroutines : Enter(g)
    \/ \E g \in Goroutines : Lock(g)
    \/ \E g \in Goroutines : Clean(g)
    \/ \E g \in Goroutines : Load(g)
    \/ \E g \in Goroutines : Store(g)
    \/ \E g \in Goroutines : Return(g)
    \/ \E g \in Goroutines : CheckKey(g)
    \/ \E g \in Goroutines : Wake(g)
    \/ Advance /\ UNCHANGED <<vitalVars, pathVars, detectVars, concVars>>

SpecConc == InitConc /\ [][NextConc]_vars

\* the next step of goroutine g, whichever it is
Step(g) ==
    \/ Enter(g) \/ Lock(g) \/ Clean(g) \/ Load(g)
    \/ Store(g) \/ Return(g) \/ CheckKey(g) \/ Wake(g)

\* the scheduler runs every goroutine that stays runnable, and the sleep ends
Fairness == \A g \in Goroutines : WF_vars(Step(g))

SpecConcFair == InitConc /\ [][NextConc]_vars /\ Fairness

-----------------------------------------------------------------------------
(* What the claims speak of, stated without the handlers' code *)

\* the minute a clock reading lies in
WindowOf(c) == c \div SecondsPerWindow

\* the addresses of network n: a block of 2^(AddrBits - prefix) starting at n.ip
InBlock(n, ip) == n.ip <= ip /\ ip < n.ip + 2 ^ (AddrBits - n.prefix)

\* ip lies in one of the configured networks
Listed(ip) == \E i \in 1..Len(allowedNets) : InBlock(allowedNets[i], ip)

\* a request has been served
Served == req # NoRequest

\* the allow() calls made so far for the caller of r in the minute of clock reading c
CallsOf(r, c) == MapGet(calls, <<FormatInt(r.ip), WindowOf(c)>>)

\* the status the first failing stage gives r when n earlier requests of its
\* caller reached the limiter in this minute
ExpectedStatus(r, n) ==
    IF Len(allowedNets) > 0 /\ ~Listed(r.ip) THEN StatusForbidden
    ELSE IF rateLimit > 0 /\ ~Listed(r.ip) /\ n + 1 > rateLimit THEN StatusTooManyRequests
    ELSE IF apiKey # <<>> /\ r.header # apiKey THEN StatusUnauthorized
    ELSE StatusOK

\* C1: every request is answered with exactly one status, that of the first
\* failing stage in the order allowlist, rate limit, API key: 403, else 429,
\* else 401, else 200.
C1_FirstFailingStage ==
    [][clock' = clock => resp'.written = <<ExpectedStatus(req', CallsOf(req', clock))>>]_vars

\* C1 witness: a request over the limit that also carries a wrong key got 429
C1_Witness ==
    /\ Served
    /\ apiKey # <<>> /\ req.header # apiKey
    /\ CallsOf(req, resp.at) > rateLimit
    /\ resp.written = <<StatusTooManyRequests>>

\* C2: of the allow(ip) calls of one minute the first L return true and the
\* next returns false, the first call of the following minute returns true
\* again; with only the limiter configured the answers are 200 and then 429.
C2_FirstLThenReject ==
    Served /\ resp.allowLog # <<>> =>
        LET e == resp.allowLog[1]
            n == MapGet(calls, <<e.host, e.now>>)
        IN  /\ Len(resp.allowLog) = 1
            /\ e.host = FormatInt(req.ip) /\ e.now = WindowOf(resp.at)
            /\ e.ok <=> n <= rateLimit
            /\ (Len(allowedNets) = 0 /\ apiKey = <<>>) =>
                  resp.written = <<IF n <= rateLimit THEN StatusOK ELSE StatusTooManyRequests>>

\* C2 witness: a caller rejected in one minute is admitted by its first call of the next
C2_Witness ==
    /\ Served /\ resp.allowLog # <<>>
    /\ resp.allowLog[1].ok
    /\ CallsOf(req, resp.at) = 1
    /\ MapGet(calls, <<FormatInt(req.ip), WindowOf(resp.at) - 1>>) = rateLimit + 1
    /\ resp.written = <<StatusOK>>

\* C3: a request from an allowlisted address never calls allow, changes no
\* rate counter and is never answered 429.
C3_ListedSkipsLimiter ==
    [][clock' = clock /\ Listed(req'.ip) =>
          /\ resp'.allowLog = <<>>
          /\ counts' = counts /\ lastClean' = lastClean /\ calls' = calls
          /\ resp'.written # <<StatusTooManyRequests>>]_vars

\* C3 witness: an allowlisted request was served while a rate limit is configured
C3_Witness ==
    /\ Served /\ Listed(req.ip) /\ rateLimit > 0
    /\ resp.written = <<StatusOK>>

\* C4: with networks configured a request gets 403 iff its address is in none
\* of them; with none configured no request gets 403.
C4_AllowlistStage ==
    Served =>
        (resp.written = <<StatusForbidden>>
            <=> (Len(allowedNets) > 0 /\ ~Listed(req.ip)))

\* C4 witness: an address of the second of two networks passed, under a
\* configuration that answers the other caller 403
C4_Witness ==
    /\ Served /\ Len(allowedNets) = 2
    /\ ~InBlock(allowedNets[1], req.ip) /\ InBlock(allowedNets[2], req.ip)
    /\ resp.written # <<StatusForbidden>>
    /\ \E ip \in ClientIPs : ~Listed(ip)

\* the request got as far as the API-key stage
ReachedKeyStage ==
    /\ Served
    /\ resp.written # <<StatusForbidden>>
    /\ resp.written # <<StatusTooManyRequests>>

\* C5: with a key configured a request passes the key stage iff its X-API-Key
\* equals the key and is answered 401 otherwise; with no key configured the
\* stage passes every request.
C5_KeyStage ==
    ReachedKeyStage =>
        IF apiKey # <<>>
        THEN resp.written = <<IF req.header = apiKey THEN StatusOK ELSE StatusUnauthorized>>
        ELSE resp.written = <<StatusOK>>

\* a is a proper prefix of b
ProperPrefix(a, b) == Len(a) < Len(b) /\ SubSeq(b, 1, Len(a)) = a

\* C5 witness: a non-empty proper prefix of the key was answered 401
C5_Witness ==
    /\ ReachedKeyStage
    /\ req.header # <<>> /\ ProperPrefix(req.header, apiKey)
    /\ resp.written = <<StatusUnauthorized>>

-----------------------------------------------------------------------------
(* The responder's claims, under SpecVitals *)

Responded == snapshot # NoSnapshot

\* the keyword of a metric whose value is v under threshold th
ExpectedKeyword(name, v, th) == <<name, IF v < th THEN "okay" ELSE "fail">>

\* C6: each metric's status keyword is "okay" iff its sampled value is
\* strictly below its own threshold and "fail" otherwise, a value equal to
\* the threshold included; no metric's status depends on another metric.
C6_StatusByThreshold ==
    Responded =>
        /\ snapshot.mem_status = ExpectedKeyword("mem", snapshot.mem_percent, thresholds[1])
        /\ snapshot.disk_status = ExpectedKeyword("disk", snapshot.disk_percent, thresholds[2])
        /\ snapshot.cpu_status = ExpectedKeyword("cpu", snapshot.cpu_percent, thresholds[3])

\* C6 witness: values exactly at the thresholds 90/80/90 are reported as three fails
C6_Witness ==
    /\ Responded
    /\ thresholds = <<90, 80, 90>>
    /\ snapshot.mem_percent = 90 /\ snapshot.disk_percent = 80 /\ snapshot.cpu_percent = 90
    /\ snapshot.mem_status = <<"mem", "fail">>
    /\ snapshot.disk_status = <<"disk", "fail">>
    /\ snapshot.cpu_status = <<"cpu", "fail">>

\* the memory source states 0 <= available <= total and total > 0
MemInRange ==
    /\ memSrc.readable /\ memSrc.hasTotal /\ memSrc.hasAvailable
    /\ memSrc.total > 0 /\ 0 <= memSrc.available /\ memSrc.available <= memSrc.total

\* the disk source reports 0 <= available <= total blocks and total > 0
DiskInRange ==
    /\ diskSrc.ok
    /\ diskSrc.Blocks > 0 /\ 0 <= diskSrc.Bavail /\ diskSrc.Bavail <= diskSrc.Blocks

\* 100 - floor(available*100/total)
UsedPercent(available, total) == 100 - ((available * 100) \div total)

\* C7: for 0 <= available <= total, total > 0, the memory and the disk sampler
\* each return exactly 100 - floor(available*100/total).
C7_UsedIsHundredMinusFloor ==
    Responded =>
        /\ MemInRange => snapshot.mem_percent = UsedPercent(memSrc.available, memSrc.total)
        /\ DiskInRange => snapshot.disk_percent = UsedPercent(diskSrc.Bavail, diskSrc.Blocks)

\* C8: for 0 <= available <= total, total > 0, the result of the memory and of
\* the disk sampler lies in [0,100]; -1 is never produced from such a source.
C8_ResultInPercentRange ==
    Responded =>
        /\ MemInRange => snapshot.mem_percent \in 0..100
        /\ DiskInRange => snapshot.disk_percent \in 0..100

\* C9: the disk sampler returns -1 whenever the statistics call reports a
\* total of zero blocks, whatever the available count.
C9_ZeroTotalDiskFails ==
    Responded /\ diskSrc.ok /\ diskSrc.Blocks = 0 => snapshot.disk_percent = -1

\* C10: the memory sampler returns -1 whenever the source is readable but
\* reports MemTotal = 0 or lacks MemTotal.
C10_ZeroTotalMemFails ==
    Responded /\ memSrc.readable /\ (~memSrc.hasTotal \/ memSrc.total = 0) =>
        snapshot.mem_percent = -1

\* C11: the CPU sampler returns an integer in [0,100] on every call, under
\* either strategy and for every pair of readings, a failed read included.
C11_CpuInPercentRange ==
    Responded => snapshot.cpu_percent \in 0..100

\* the number of times sampler name was invoked for the request
Invocations(name) ==
    Cardinality({i \in 1..Len(samplerCalls) : samplerCalls[i] = name})

\* C12: a failed memory or disk sample is neither fatal nor retried: the
\* sampler ran once, the response is a 200 carrying -1 for that metric, and
\* the other metrics are what their own samplers give.
C12_FailureReportedOnce ==
    Responded /\ (~memSrc.readable \/ ~diskSrc.ok) =>
        /\ resp.written = <<StatusOK>>
        /\ \A n \in {"percentMemUsed", "percentDiskUsed", "percentCpuUsed"} :
               Invocations(n) = 1
        /\ snapshot.mem_percent =
               IF memSrc.readable THEN percentMemUsed(memSrc, goarch) ELSE -1
        /\ snapshot.disk_percent =
               IF diskSrc.ok THEN percentDiskUsed(diskSrc) ELSE -1
        /\ snapshot.cpu_percent = percentCpuUsed(cpuSrc)
        /\ snapshot.mem_status = ExpectedKeyword("mem", snapshot.mem_percent, thresholds[1])
        /\ snapshot.disk_status = ExpectedKeyword("disk", snapshot.disk_percent, thresholds[2])
        /\ snapshot.cpu_status = ExpectedKeyword("cpu", snapshot.cpu_percent, thresholds[3])

\* C12 witness: unreadable memory reported as -1 in a 200 beside a disk at 15
\* and a CPU at 90
C12_Witness ==
    /\ Responded /\ ~memSrc.readable /\ DiskInRange
    /\ resp.written = <<StatusOK>>
    /\ snapshot.mem_percent = -1
    /\ snapshot.disk_percent = 15 /\ snapshot.cpu_percent = 90

\* the host strategy is the one percentCpuUsed takes
HostStrategy == ~(runningInContainer /\ cpuSrc.cgProbe)

\* both readings of /proc/stat gave a "cpu" line
StatUsable == \A st \in {cpuSrc.stat0, cpuSrc.stat1} : st.readable /\ st.hasCpuLine

\* idle + iowait of a reading, and the sum of its eight fields
IdleOf(st) == st.fields.idle + st.fields.iowait
TotalOf(st) ==
    st.fields.user + st.fields.nice + st.fields.system + st.fields.idle
        + st.fields.iowait + st.fields.irq + st.fields.softirq + st.fields.steal

\* floor(a / b), b # 0
Floor(a, b) == IF b > 0 THEN a \div b ELSE (-a) \div (-b)

\* C20: under the host strategy the result is
\* floor(100 * (totalDelta - idleDelta) / totalDelta) with idle = idle + iowait
\* and total = the sum of the eight fields, and 0 when totalDelta = 0.
C20_HostFormula ==
    Responded /\ HostStrategy /\ StatUsable =>
        LET idleDelta == IdleOf(cpuSrc.stat1) - IdleOf(cpuSrc.stat0)
            totalDelta == TotalOf(cpuSrc.stat1) - TotalOf(cpuSrc.stat0)
        IN  snapshot.cpu_percent =
               IF totalDelta = 0 THEN 0
               ELSE Floor(100 * (totalDelta - idleDelta), totalDelta)

\* C20 witness: 3 busy jiffies out of 7, with iowait moving, reported as 42
C20_Witness ==
    /\ Responded /\ HostStrategy /\ StatUsable
    /\ cpuSrc.stat1.fields.iowait # cpuSrc.stat0.fields.iowait
    /\ TotalOf(cpuSrc.stat1) - TotalOf(cpuSrc.stat0) = 7
    /\ snapshot.cpu_percent = 42

-----------------------------------------------------------------------------
(* The gate's further claims *)

\* C13: with rateLimit = 0 the limiter is never invoked: the counts map stays
\* empty, lastClean stays as constructed, and no request is answered 429.
C13_ZeroLimitBypasses ==
    rateLimit = 0 =>
        /\ counts = EmptyMap /\ lastClean = 0
        /\ calls = EmptyMap /\ resp.allowLog = <<>>
        /\ resp.written # <<StatusTooManyRequests>>

\* C13 witness: with no limit, allowlist or key a request was answered 200
\* after the clock had moved, the map still empty
C13_Witness ==
    /\ rateLimit = 0 /\ allowedNets = <<>> /\ apiKey = <<>>
    /\ Served /\ resp.at = StartClock + 1 /\ resp.written = <<StatusOK>>
    /\ counts = EmptyMap

\* the other of the two registered patterns
OtherPath(u) == IF u = "/" THEN "/vitals" ELSE "/"

\* the limiter key of a caller in a minute
KeyOf(ip, w) == FormatInt(ip) \o <<"|">> \o FormatInt(w)

\* C14: a request to / and the same request to /vitals are handled alike: from
\* the same limiter state they write the same status and leave the same
\* counters, and a request over the limit is answered 429 on either path
\* whatever the paths of the caller's earlier requests.
C14_PathsAlike ==
    [][clock' = clock =>
          LET twin == [req' EXCEPT !.path = OtherPath(@)]
              out == DefaultServeMux(twin, [counts |-> counts, lastClean |-> lastClean,
                                            written |-> <<>>, sampled |-> FALSE,
                                            allowLog |-> <<>>])
          IN  /\ resp'.written = out.written
              /\ resp'.sampled = out.sampled
              /\ counts' = out.counts /\ lastClean' = out.lastClean
              /\ resp'.written = <<ExpectedStatus(req', CallsOf(req', clock))>>]_vars

\* C14 witness: with a limit of 1 the caller's request to /vitals was admitted
\* and its next request, to /, in the same minute was answered 429
C14_Witness ==
    /\ Served /\ req.path = "/" /\ rateLimit = 1
    /\ CallsOf(req, resp.at) = 2
    /\ <<FormatInt(req.ip), WindowOf(resp.at)>> \in DOMAIN callPaths
    /\ callPaths[<<FormatInt(req.ip), WindowOf(resp.at)>>] = {"/", "/vitals"}
    /\ MapGet(counts, KeyOf(req.ip, WindowOf(resp.at))) = 2
    /\ resp.written = <<StatusTooManyRequests>>

\* C16: the samplers run only for a request that passed all three stages: a
\* request answered 403, 429 or 401 starts no sample, and a sample is started
\* exactly for the requests answered 200.
C16_SampleOnlyAfterGate ==
    Served =>
        /\ resp.sampled <=> resp.written = <<StatusOK>>
        /\ (\E i \in 1..Len(resp.written) :
               resp.written[i] \in {StatusForbidden, StatusTooManyRequests, StatusUnauthorized})
              => ~resp.sampled

\* C16 witness: a request with a wrong key, admitted by the allowlist and the
\* limiter, was answered 401 without a sample
C16_Witness ==
    /\ Served /\ Len(allowedNets) > 0 /\ Listed(req.ip) /\ rateLimit > 0
    /\ apiKey # <<>> /\ req.header # apiKey
    /\ resp.written = <<StatusUnauthorized>> /\ ~resp.sampled

\* key belongs to minute w
InWindow(key, w) == HasSuffix(key, <<"|">> \o FormatInt(w))

\* C17: after a completed allow() call lastClean is that call's minute and
\* every key of the map belongs to it; the first call of a new minute leaves
\* only its own entry, and a call in the minute of lastClean deletes nothing.
C17_PurgeOnWindowChange ==
    [][clock' = clock /\ resp'.allowLog # <<>> =>
          LET w == WindowOf(clock)
              key == KeyOf(req'.ip, w)
          IN  /\ lastClean' = w
              /\ \A k \in DOMAIN counts' : InWindow(k, w)
              /\ IF w = lastClean
                 THEN /\ DOMAIN counts \subseteq DOMAIN counts'
                      /\ \A k \in DOMAIN counts :
                            counts'[k] = counts[k] + (IF k = key THEN 1 ELSE 0)
                 ELSE counts' = [k \in {key} |-> 1]]_vars

\* C17 witness: the first call of minute 2 has returned; both callers had
\* entries in minute 1, and the map now holds the one entry of minute 2
C17_Witness ==
    /\ Served /\ resp.allowLog # <<>> /\ WindowOf(resp.at) = 2
    /\ \A ip \in ClientIPs : MapGet(calls, <<FormatInt(ip), 1>>) > 0
    /\ lastClean = 2
    /\ counts = [k \in {KeyOf(req.ip, 2)} |-> 1]

\* the callers and minutes the history knows
Callers == {k[1] : k \in DOMAIN calls}
Minutes == {k[2] : k \in DOMAIN calls}

\* C18: in any single minute at most L calls of a caller are admitted, so over
\* two consecutive minutes at most 2L.
C18_FixedWindowBound ==
    \A h \in Callers, w \in Minutes :
        /\ MapGet(admitted, <<h, w>>) <= rateLimit
        /\ MapGet(admitted, <<h, w>>) + MapGet(admitted, <<h, w + 1>>) <= 2 * rateLimit

\* C18 witness: 2L calls of one caller admitted within less than a minute, L
\* at the end of minute 1 and L at the start of minute 2
C18_Witness ==
    /\ rateLimit = MaxLimit
    /\ \E h \in Callers :
          /\ MapGet(admitted, <<h, 1>>) = rateLimit
          /\ MapGet(admitted, <<h, 2>>) = rateLimit
    /\ resp.at - StartClock < SecondsPerWindow

-----------------------------------------------------------------------------
(* The claims on requests in flight together, under SpecConc *)

\* goroutine g is inside allow(), between Lock and the deferred Unlock
InAllow(g) == pc[g] \in {"clean", "load", "store", "return"}

\* g has read the counter; the minute read is never 0, the clock being past 1970
HasLoaded(g) == frame[g].now # 0 /\ pc[g] \in {"store", "return", "key", "sleep", "done"}

\* g has written the counter back
HasStored(g) == frame[g].now # 0 /\ pc[g] \in {"return", "key", "sleep", "done"}

\* allow() has returned to g
HasReturned(g) == frame[g].now # 0 /\ pc[g] \in {"key", "sleep", "done"}

\* the goroutines whose allow() call was for the key of g's call
SameKey(g) == {h \in Goroutines : frame[h].now # 0 /\ KeyIn(h) = KeyIn(g)}

Min(a, b) == IF a < b THEN a ELSE b

\* C15: of the n calls to allow(ip) that have returned for one caller and
\* minute exactly min(n, L) returned true, under every interleaving: no two
\* calls read the same counter value and no increment is lost.
C15_ExactlyMinAdmitted ==
    \A g \in Goroutines :
        /\ HasReturned(g) =>
              Cardinality({h \in SameKey(g) : HasReturned(h) /\ frame[h].ok})
                 = Min(Cardinality({h \in SameKey(g) : HasReturned(h)}), rateLimit)
        /\ HasLoaded(g) =>
              \A h \in SameKey(g) \ {g} : HasLoaded(h) => frame[h].loaded # frame[g].loaded
        /\ HasStored(g) /\ frame[g].now = lastClean =>
              MapGet(counts, KeyIn(g)) = Cardinality({h \in SameKey(g) : HasStored(h)})

\* C15 witness: every request in flight came from one caller in one minute,
\* more of them than the limit, and exactly L were let pass
C15_Witness ==
    /\ rateLimit > 0 /\ rateLimit < NumRequests
    /\ \A g \in Goroutines : HasReturned(g) /\ SameKey(g) = Goroutines
    /\ Cardinality({g \in Goroutines : frame[g].ok}) = rateLimit
    /\ Cardinality({g \in Goroutines : frame[g].status = StatusTooManyRequests})
          = NumRequests - rateLimit

\* C19: the mutex is held only inside allow(): a goroutine in the sleep of the
\* CPU sampler never holds it, so whenever a request waits for the mutex and
\* no request is inside allow() the mutex is free and the Lock can be taken.
C19_NoLockWhileSampling ==
    \A g \in Goroutines :
        /\ mu = g <=> InAllow(g)
        /\ pc[g] = "sleep" => mu # g
        /\ (pc[g] = "lock" /\ \A h \in Goroutines : ~InAllow(h)) => mu = 0 /\ ENABLED Lock(g)

\* C19 witness: one request is in the sampler's sleep while another is inside
\* allow() with the mutex
C19_Witness ==
    \E g, h \in Goroutines :
        /\ g # h
        /\ pc[g] = "sleep" /\ frame[g].status = 0
        /\ mu = h /\ pc[h] = "store"

-----------------------------------------------------------------------------
(* The responder's further claims, under SpecVitals *)

\* what the container strategy and the host strategy give on the CPU sources
ContainerResult ==
    LET d == (IF cpuSrc.cg1.readable /\ cpuSrc.cg1.hasUsageLine THEN cpuSrc.cg1.usage_usec ELSE 0)
               - (IF cpuSrc.cg0.readable /\ cpuSrc.cg0.hasUsageLine THEN cpuSrc.cg0.usage_usec ELSE 0)
        u == IF d >= 0 THEN (100 * d) \div (1000000 * cpuSrc.numCPU)
             ELSE -((100 * (-d)) \div (1000000 * cpuSrc.numCPU))
    IN  IF u > 100 THEN 100 ELSE u

\* idle + iowait and the eight-field sum of a reading, 0 when it gave no cpu line
IdleRead(st) == IF st.readable /\ st.hasCpuLine THEN IdleOf(st) ELSE 0
TotalRead(st) == IF st.readable /\ st.hasCpuLine THEN TotalOf(st) ELSE 0

HostResult ==
    LET idleDelta == IdleRead(cpuSrc.stat1) - IdleRead(cpuSrc.stat0)
        totalDelta == TotalRead(cpuSrc.stat1) - TotalRead(cpuSrc.stat0)
    IN  IF totalDelta = 0 THEN 0 ELSE Floor(100 * (totalDelta - idleDelta), totalDelta)

\* C21: the container strategy is used iff the classification taken at startup
\* is true and cpu.stat is readable at the call; in every other case the host
\* strategy is used; serving never changes the classification.
C21_StrategyChoice ==
    /\ [](Responded =>
             snapshot.cpu_percent =
                IF runningInContainer /\ cpuSrc.cgProbe THEN ContainerResult ELSE HostResult)
    /\ [][runningInContainer' = runningInContainer]_vars

\* C21 witness: containerized with cpu.stat absent, the host strategy's value
\* was reported where the container strategy would have given another
C21_Witness ==
    /\ Responded /\ runningInContainer /\ ~cpuSrc.cgProbe
    /\ ContainerResult # HostResult
    /\ snapshot.cpu_percent = HostResult

-----------------------------------------------------------------------------
(* The detector's claim, under SpecDetect *)

Classified == markerReads # <<>>

MarkerWords == {<<"l", "x", "c">>, <<"d", "o", "c", "k", "e", "r">>, <<"o", "c", "i">>}
MaxSpace == <<"m", "a", "x", " ">>
LxcPath == <<"/", "l", "x", "c", "/">>
DockerPath == <<"/", "d", "o", "c", "k", "e", "r", "/">>

\* text occurs somewhere in s
Occurs(text, s) ==
    \E i \in 1..(Len(s) - Len(text) + 1) : SubSeq(s, i, i + Len(text) - 1) = text

\* the four checks, as the markers state them
SystemdPositive == markerFiles.systemd.readable /\ markerFiles.systemd.body \in MarkerWords
DockerPositive == markerFiles.dockerenv.exists
CpuMaxPositive ==
    /\ markerFiles.cpumax.readable
    /\ ~(Len(markerFiles.cpumax.body) >= Len(MaxSpace)
            /\ SubSeq(markerFiles.cpumax.body, 1, Len(MaxSpace)) = MaxSpace)
Cgroup1Positive ==
    /\ markerFiles.cgroup1.readable
    /\ (Occurs(LxcPath, markerFiles.cgroup1.content)
           \/ Occurs(DockerPath, markerFiles.cgroup1.content))

\* the files in the order of the checks
CheckOrder ==
    <<"/run/systemd/container", "/.dockerenv", "/sys/fs/cgroup/cpu.max", "/proc/1/cgroup">>

\* the number of checks made when the first positive one decides
ChecksMade ==
    IF SystemdPositive THEN 1
    ELSE IF DockerPositive THEN 2
    ELSE IF CpuMaxPositive THEN 3
    ELSE 4

\* C22: isInContainer returns true iff one of the four checks is positive,
\* the checks are made in order up to the first positive one, and a missing
\* file or a negative check never stops the later ones.
C22_DetectorVerdict ==
    Classified =>
        /\ runningInContainer <=>
              (SystemdPositive \/ DockerPositive \/ CpuMaxPositive \/ Cgroup1Positive)
        /\ markerReads = SubSeq(CheckOrder, 1, ChecksMade)

\* C22 witness: a systemd marker that names no container, no Docker marker
\* and no cpu.max, then /docker/ in the cgroup file of process 1: true after
\* four checks
C22_Witness ==
    /\ Classified
    /\ markerFiles.systemd.readable /\ ~SystemdPositive
    /\ ~markerFiles.dockerenv.exists
    /\ ~markerFiles.cpumax.readable
    /\ Occurs(DockerPath, markerFiles.cgroup1.content)
    /\ runningInContainer /\ Len(markerReads) = 4

-----------------------------------------------------------------------------
(* The gate's implicit claims *)

\* C23: with at least one network configured the limiter is never invoked and
\* no request is answered 429, whatever rateLimit is: a caller outside the
\* networks gets 403 before the rate stage, a caller inside is exempt from it.
C23_AllowlistDisablesLimiter ==
    Len(allowedNets) > 0 =>
        /\ calls = EmptyMap /\ counts = EmptyMap /\ lastClean = 0
        /\ resp.allowLog = <<>>
        /\ \A i \in 1..Len(resp.written) : resp.written[i] # StatusTooManyRequests
        /\ Served /\ ~Listed(req.ip) => resp.written = <<StatusForbidden>>

\* C23 witness: under a limit of 1 a caller outside the networks was answered
\* 403 in the second minute, the limiter untouched
C23_Witness ==
    /\ Len(allowedNets) > 0 /\ rateLimit = 1
    /\ Served /\ ~Listed(req.ip) /\ WindowOf(resp.at) = 2
    /\ resp.written = <<StatusForbidden>>
    /\ counts = EmptyMap

\* C24: the counter of (ip, minute) is the number of requests of that caller
\* that reached the rate stage in that minute, whatever their outcome: a
\* request answered 429 or 401 has been counted, so once more than L have
\* reached the stage the answer is 429 even with the correct key.
C24_EveryCallCounted ==
    /\ \A k \in DOMAIN calls :
          k[2] = lastClean => MapGet(counts, k[1] \o <<"|">> \o FormatInt(k[2])) = calls[k]
    /\ \A k \in DOMAIN keyFailures :
          /\ keyFailures[k] <= MapGet(admitted, k)
          /\ MapGet(admitted, k) <= MapGet(calls, k)
    /\ Served /\ resp.allowLog # <<>> =>
          (resp.written = <<StatusTooManyRequests>> <=> CallsOf(req, resp.at) > rateLimit)

\* C24 witness: L requests without the key were answered 401, and the
\* caller's next request of the minute, with the correct key, got 429
C24_Witness ==
    /\ rateLimit = MaxLimit /\ apiKey # <<>>
    /\ Served /\ req.header = apiKey
    /\ MapGet(keyFailures, <<FormatInt(req.ip), WindowOf(resp.at)>>) = rateLimit
    /\ CallsOf(req, resp.at) = rateLimit + 1
    /\ resp.written = <<StatusTooManyRequests>>

-----------------------------------------------------------------------------
(* The responder's implicit claim *)

\* C25: when the memory or the disk sampler fails and returns -1 the keyword
\* of that metric is "okay" under every threshold main accepts, never "fail".
C25_FailureReadsOkay ==
    Responded =>
        /\ thresholds[1] \in 1..100 /\ thresholds[2] \in 1..100
        /\ ~memSrc.readable =>
              snapshot.mem_percent = -1 /\ snapshot.mem_status = <<"mem", "okay">>
        /\ ~diskSrc.ok =>
              snapshot.disk_percent = -1 /\ snapshot.disk_status = <<"disk", "okay">>

\* C25 witness: under the lowest thresholds, 1/1/1, unreadable memory and a
\* failed statfs are both reported as okay
C25_Witness ==
    /\ Responded /\ thresholds = <<1, 1, 1>>
    /\ ~memSrc.readable /\ ~diskSrc.ok
    /\ snapshot.mem_status = <<"mem", "okay">>
    /\ snapshot.disk_status = <<"disk", "okay">>

-----------------------------------------------------------------------------
(* The limiter's frame *)

\* C27: a call allow(ip) in minute w changes only the counter of (ip, w),
\* apart from the purge of other minutes and lastClean: the counters of the
\* other callers in minute w stay as they were, and each caller is admitted
\* its own L calls per minute whatever the others have used.
C27_OtherCallersUntouched ==
    [][clock' = clock /\ resp'.allowLog # <<>> =>
          LET w == WindowOf(clock)
              key == KeyOf(req'.ip, w)
          IN  /\ \A k \in DOMAIN counts' \ {key} : k \in DOMAIN counts /\ counts'[k] = counts[k]
              /\ \A k \in DOMAIN counts \ {key} : InWindow(k, w) => k \in DOMAIN counts'
              /\ MapGet(counts', key) = MapGet(IF w = lastClean THEN counts ELSE EmptyMap, key) + 1
              /\ \A ip \in ClientIPs \ {req'.ip} :
                    /\ MapGet(calls', <<FormatInt(ip), w>>) = MapGet(calls, <<FormatInt(ip), w>>)
                    /\ MapGet(admitted', <<FormatInt(ip), w>>)
                          = MapGet(admitted, <<FormatInt(ip), w>>)
              /\ resp'.allowLog[1].ok <=> MapGet(admitted, <<FormatInt(req'.ip), w>>) < rateLimit]_vars

\* C27 witness: one caller has used up its limit and been rejected, and in
\* the same minute the other caller's L-th request was admitted with 200
C27_Witness ==
    /\ Served /\ resp.allowLog # <<>> /\ rateLimit > 0
    /\ \E other \in ClientIPs \ {req.ip} :
          /\ MapGet(calls, <<FormatInt(other), WindowOf(resp.at)>>) = rateLimit + 1
          /\ MapGet(counts, KeyOf(other, WindowOf(resp.at))) = rateLimit + 1
    /\ MapGet(admitted, <<FormatInt(req.ip), WindowOf(resp.at)>>) = rateLimit
    /\ CallsOf(req, resp.at) = rateLimit
    /\ resp.written = <<StatusOK>>

-----------------------------------------------------------------------------
(* Termination, under SpecConcFair *)

\* the request of g has been answered, with one status
Answered(g) ==
    /\ pc[g] = "done"
    /\ frame[g].status \in {StatusOK, StatusUnauthorized, StatusForbidden, StatusTooManyRequests}

\* C26: under fair scheduling every request is eventually answered, with one
\* status, and stays answered; a request in its sample needs no other request
\* to finish before it can respond.
C26_EveryRequestAnswered ==
    /\ \A g \in Goroutines : <>[]Answered(g)
    /\ [](\A g \in Goroutines :
             /\ pc[g] = "done" <=> frame[g].status # 0
             /\ pc[g] = "sleep" => ENABLED Wake(g))

\* C26 witness: every request of a burst from one caller has been answered,
\* the admitted ones with 200 after their samples, the one over the limit
\* with 429, the mutex free
C26_Witness ==
    /\ \A g \in Goroutines : Answered(g) /\ SameKey(g) = Goroutines
    /\ rateLimit > 1 /\ mu = 0
    /\ Cardinality({g \in Goroutines : frame[g].status = StatusOK}) >= 2
    /\ \E g \in Goroutines : frame[g].status = StatusTooManyRequests

====
